---------------------------- MODULE Spec2Model ----------------------------
(***************************************************************************)
(* A model of the console Snake game: the Snake, Food, GameBoard and Game  *)
(* classes of snake.cpp (src/unnamed/part_000, POSIX branch) and of the    *)
(* Windows-only variant src/snakeCycle.cpp, whose Snake, Food and          *)
(* Game::update code is the same.                                          *)
(*                                                                         *)
(* Spec is the whole program of snake.cpp: the Game object from its        *)
(* construction through Game::run.  WinSpec is the same for                *)
(* src/snakeCycle.cpp.  SnakeSpec is the Snake class driven through its    *)
(* public interface by an arbitrary caller.  SpeedSpec, BoardSpec and      *)
(* CollisionSpec call one function each with any argument.  TermSpec is    *)
(* the process and its terminal: main, class Console and sigintHandler.    *)
(* FoodSpec is the loop of Food::generateFood statement by statement, with *)
(* a fair rand().  CycleSpec is the game of snake.cpp played along a       *)
(* closed path through all cells until the board is full.  HeaderSpec      *)
(* calls GameBoard::displayHeader and resetDrawnFlags in any order.        *)
(* DrawSpec is the game of snake.cpp with the characters that render()     *)
(* leaves on the cells of the board area.                                  *)
(***************************************************************************)
EXTENDS Integers, Sequences, FiniteSets, TLC

VARIABLES
    snake,        \* Snake: [body, previousBody, direction, growing]
    food,         \* Food: [position, symbol, color, value]
    board,        \* GameBoard's remembered render state
    headerDrawn,  \* the function-local static of GameBoard::displayHeader
    score, highScore, gameOver, gameRunning, paused,
    gameSpeed, currentLevel, oldFoodPos, foodEaten,   \* Game's fields
    pc,           \* position of the control flow in Game::run
    moves,        \* moves of the snake made so far
    keys,         \* keys consumed by processInput so far
    games,        \* restarts so far
    op,           \* the class specifications: the last method called
    pauseMark,    \* history: the game as it was when the last key read by
                  \* processInput, if that key was p, was read
    screen,       \* the parts of the display that are on the terminal
    console       \* class Console and the terminal behind it

vars == <<snake, food, board, headerDrawn, score, highScore, gameOver,
          gameRunning, paused, gameSpeed, currentLevel, oldFoodPos,
          foodEaten, pc, moves, keys, games, op, pauseMark, screen,
          console>>

gameVars == <<food, board, headerDrawn, score, highScore, gameOver,
              gameRunning, paused, gameSpeed, currentLevel, oldFoodPos,
              foodEaten>>

-----------------------------------------------------------------------------
(* Bounds of the exploration.                                              *)

\* moves of the snake explored in a run of the program
MaxMoves == 11
\* keys read by processInput explored in a run of the program
MaxKeys == 3
\* restarts explored
MaxGames == 1
\* rand() in generateFood is explored for this many cells: the head of the
\* body passed in and the cells nearest to it, in the order of SampleOffsets
FoodCells == 5
\* longest body explored
MaxLen == 4
\* SnakeSpec: the head stays within this distance of its start cell
MaxReach == 1
\* SpeedSpec: the scores updateGameSpeed is called with are 0..MaxScore
MaxScore == 1200
\* BoardSpec: isValidPosition is called with the cells of the board and
\* those up to this far outside it
Margin == 2
\* CollisionSpec: checkSelfCollision is called with bodies up to this long
MaxBody == 4

-----------------------------------------------------------------------------
(* Program constants.                                                      *)

BoardWidth == 30
BoardHeight == 20
StartX == 10
StartY == 10
InitialSpeed == 150
MinSpeed == 50
BaseSpeed == 200
SpeedStep == 15
LevelScore == 100
CommonValue == 10
BonusValue == 50
BonusOdds == 10

\* enum Direction { UP, DOWN, LEFT, RIGHT, STOP }
UP == "UP"
DOWN == "DOWN"
LEFT == "LEFT"
RIGHT == "RIGHT"
STOP == "STOP"
Direction == {UP, DOWN, LEFT, RIGHT, STOP}

\* enum ConsoleColor: the two colours Food uses
LIGHT_RED == 12
LIGHT_YELLOW == 14

\* struct Position { int x, y; }
Position(x, y) == <<x, y>>
PosX(p) == p[1]
PosY(p) == p[2]

Abs(n) == IF n < 0 THEN -n ELSE n
Max(a, b) == IF a >= b THEN a ELSE b

-----------------------------------------------------------------------------
(* Console                                                                 *)

\* struct termios, the fields the program sets: the ICANON and ECHO bits of
\* c_lflag, c_cc[VMIN] and c_cc[VTIME]
Termios(icanon, echo, vmin, vtime) ==
    [icanon |-> icanon, echo |-> echo, vmin |-> vmin, vtime |-> vtime]

\* the settings a terminal can have when the program starts
TermiosSettings ==
    {Termios(i, e, m, t) : i \in BOOLEAN, e \in BOOLEAN, m \in {0, 1},
                           t \in {0, 1}}

\* a terminal in its usual line mode
Cooked == Termios(TRUE, TRUE, 1, 0)

\* static struct termios Console::oldSettings: zero-initialised
ZeroTermios == Termios(FALSE, FALSE, 0, 0)

\* Console::configureTerminal: newSettings made from oldSettings
RawOf(s) == [s EXCEPT !.icanon = FALSE, !.echo = FALSE, !.vmin = 0,
                      !.vtime = 0]

\* Console::getch_blocking: blocking made from saved
BlockingOf(s) == [s EXCEPT !.echo = FALSE, !.icanon = FALSE, !.vmin = 1,
                           !.vtime = 0]

\* The terminal and class Console before Console::initialize: tty is what
\* the terminal is set to, initial what it was set to when the program
\* started, saved the local of getch_blocking, handlers whether
\* sigintHandler is installed, exit how the process ended.
Untouched(s) ==
    [tty |-> s, initial |-> s, oldSettings |-> ZeroTermios,
     terminalConfigured |-> FALSE, saved |-> ZeroTermios,
     handlers |-> FALSE, exit |-> "none"]

\* The same after main has installed the handlers and configureTerminal
\* has run
Configured(s) ==
    [Untouched(s) EXCEPT !.tty = RawOf(s), !.oldSettings = s,
                         !.terminalConfigured = TRUE, !.handlers = TRUE]

-----------------------------------------------------------------------------
(* Snake                                                                   *)

\* std::find(v.begin(), v.end(), pos) != v.end()
Contains(v, pos) == \E i \in 1..Len(v) : v[i] = pos

\* Snake::Snake
InitialBody ==
    <<Position(StartX, StartY), Position(StartX - 1, StartY),
      Position(StartX - 2, StartY)>>

NewSnake ==
    [body |-> InitialBody, previousBody |-> InitialBody,
     direction |-> STOP, growing |-> FALSE]

\* setDirection with the LEFT/RIGHT test written the wrong way round
SetDirectionSwapped(s, dir) ==
    IF \/ (s.direction = UP /\ dir # DOWN)
       \/ (s.direction = DOWN /\ dir # UP)
       \/ (s.direction = LEFT /\ dir # LEFT)
       \/ (s.direction = RIGHT /\ dir # RIGHT)
       \/ s.direction = STOP
    THEN [s EXCEPT !.direction = dir]
    ELSE s

\* Snake::setDirection: the snake after setDirection(dir)
SetDirection(s, dir) ==
    IF \/ (s.direction = UP /\ dir # DOWN)
       \/ (s.direction = DOWN /\ dir # UP)
       \/ (s.direction = LEFT /\ dir # RIGHT)
       \/ (s.direction = RIGHT /\ dir # LEFT)
       \/ s.direction = STOP
    THEN [s EXCEPT !.direction = dir]
    ELSE s

\* the switch of Snake::move: the head translated one cell
Translate(head, dir) ==
    CASE dir = UP -> Position(PosX(head), PosY(head) - 1)
      [] dir = DOWN -> Position(PosX(head), PosY(head) + 1)
      [] dir = LEFT -> Position(PosX(head) - 1, PosY(head))
      [] dir = RIGHT -> Position(PosX(head) + 1, PosY(head))
      [] OTHER -> head

\* body.pop_back()
PopBack(v) == SubSeq(v, 1, Len(v) - 1)

\* move without the else branch that clears the growth flag
MoveKeepsGrowing(s) ==
    IF s.direction = STOP THEN s
    ELSE LET head == Translate(s.body[1], s.direction)
             inserted == <<head>> \o s.body
         IN  [s EXCEPT !.previousBody = s.body,
                       !.body = IF ~s.growing THEN PopBack(inserted)
                                ELSE inserted]

\* move without previousBody = body
MoveNoSnapshot(s) ==
    IF s.direction = STOP THEN s
    ELSE LET head == Translate(s.body[1], s.direction)
             inserted == <<head>> \o s.body
         IN  [s EXCEPT !.body = IF ~s.growing THEN PopBack(inserted)
                                ELSE inserted,
                       !.growing = FALSE]

\* move without its test for STOP
MoveIgnoresStop(s) ==
    LET head == Translate(s.body[1], s.direction)
        inserted == <<head>> \o s.body
    IN  [s EXCEPT !.previousBody = s.body,
                  !.body = IF ~s.growing THEN PopBack(inserted)
                           ELSE inserted,
                  !.growing = FALSE]

\* Snake::move
Move(s) ==
    IF s.direction = STOP THEN s
    ELSE LET head == Translate(s.body[1], s.direction)
             inserted == <<head>> \o s.body
         IN  [s EXCEPT !.previousBody = s.body,
                       !.body = IF ~s.growing THEN PopBack(inserted)
                                ELSE inserted,
                       !.growing = FALSE]

\* grow that sets nothing
GrowNothing(s) == s

\* Snake::grow
Grow(s) == [s EXCEPT !.growing = TRUE]

\* Snake::getHead
GetHead(s) == IF Len(s.body) = 0 THEN Position(0, 0) ELSE s.body[1]

\* Snake::getLength
GetLength(s) == Len(s.body)

\* checkSelfCollision looking at the segment next to the head only
CheckSelfCollisionNext(s) ==
    IF Len(s.body) <= 1 THEN FALSE ELSE s.body[1] = s.body[2]

\* checkSelfCollision with its loop ended one segment early
CheckSelfCollisionSkipsLast(s) ==
    IF Len(s.body) <= 1 THEN FALSE
    ELSE \E i \in 2..(Len(s.body) - 1) : s.body[1] = s.body[i]

\* Snake::checkSelfCollision
CheckSelfCollision(s) ==
    IF Len(s.body) <= 1 THEN FALSE
    ELSE \E i \in 2..Len(s.body) : s.body[1] = s.body[i]

\* reset without body.clear()
ResetNoClear(s) ==
    [body |-> s.body \o InitialBody, previousBody |-> s.body \o InitialBody,
     direction |-> STOP, growing |-> FALSE]

\* Snake::reset
Reset(s) ==
    [body |-> InitialBody, previousBody |-> InitialBody,
     direction |-> STOP, growing |-> FALSE]

-----------------------------------------------------------------------------
(* Food                                                                    *)

\* Food::Food
NewFood ==
    [position |-> Position(0, 0), symbol |-> "*", color |-> LIGHT_RED,
     value |-> CommonValue]

\* The pairs (rand() % width, rand() % height) explored: of the values
\* 0..width-1 and 0..height-1 the two draws can take, the cells at the
\* first FoodCells of these offsets from the head of snakeBody.
SampleOffsets ==
    <<Position(0, 0), Position(1, 0), Position(0, 1), Position(-1, 0),
      Position(0, -1), Position(1, 1), Position(-1, 1), Position(-1, -1),
      Position(1, -1)>>

Samples(width, height, snakeBody) ==
    LET h == snakeBody[1]
    IN  {p \in {Position(PosX(h) + PosX(SampleOffsets[i]),
                         PosY(h) + PosY(SampleOffsets[i])) :
                    i \in 1..FoodCells} :
            /\ PosX(p) \in 0..(width - 1)
            /\ PosY(p) \in 0..(height - 1)}

\* generateFood with the loop left on the first sample
FoodLoopExitAtOnce(snakeBody, pos) == TRUE

\* The do-while loop of Food::generateFood: the sample it ends with is one
\* that std::find does not find in snakeBody.
FoodLoopExit(snakeBody, pos) == ~Contains(snakeBody, pos)

\* generateFood with the symbol of the bonus branch left out
FoodVariantNoSymbol(f, r) ==
    IF r % BonusOdds = 0
    THEN [f EXCEPT !.color = LIGHT_YELLOW, !.value = BonusValue]
    ELSE [f EXCEPT !.symbol = "*", !.color = LIGHT_RED,
                   !.value = CommonValue]

\* a generateFood whose bonus food is worth 5
FoodVariantCheapBonus(f, r) ==
    IF r % BonusOdds = 0
    THEN [f EXCEPT !.symbol = "$", !.color = LIGHT_YELLOW, !.value = 5]
    ELSE [f EXCEPT !.symbol = "*", !.color = LIGHT_RED,
                   !.value = CommonValue]

\* The if (rand() % 10 == 0) of Food::generateFood, for a draw r
FoodVariant(f, r) ==
    IF r % BonusOdds = 0
    THEN [f EXCEPT !.symbol = "$", !.color = LIGHT_YELLOW,
                   !.value = BonusValue]
    ELSE [f EXCEPT !.symbol = "*", !.color = LIGHT_RED,
                   !.value = CommonValue]

\* Food::generateFood: the Food objects a call that returns can leave
GenerateFood(f, width, height, snakeBody) ==
    {FoodVariant([f EXCEPT !.position = pos], r) :
        pos \in {p \in Samples(width, height, snakeBody) :
                    FoodLoopExit(snakeBody, p)},
        r \in 0..(BonusOdds - 1)}

-----------------------------------------------------------------------------
(* GameBoard                                                               *)

\* std::string: "" and "Level " + std::to_string(level)
EmptyString == <<>>
LevelLabel(level) == <<"Level ", level>>

\* GameBoard::GameBoard
NewBoard(w, h) ==
    [width |-> w, height |-> h, borderDrawn |-> FALSE, lastScore |-> -1,
     lastHighScore |-> -1, lastLength |-> -1, lastLevel |-> EmptyString,
     wasPaused |-> FALSE]

\* isValidPosition without its test pos.x >= 0
IsValidPositionNoLowerX(b, pos) ==
    PosX(pos) < b.width /\ PosY(pos) >= 0 /\ PosY(pos) < b.height

\* isValidPosition with <= height for < height
IsValidPositionOffByOne(b, pos) ==
    PosX(pos) >= 0 /\ PosX(pos) < b.width /\ PosY(pos) >= 0
        /\ PosY(pos) <= b.height

\* GameBoard::isValidPosition
IsValidPosition(b, pos) ==
    PosX(pos) >= 0 /\ PosX(pos) < b.width /\ PosY(pos) >= 0
        /\ PosY(pos) < b.height

\* The parts of the display the GameBoard draws once or on a change
ScreenElements == {"border", "header", "score", "highScore", "length", "level"}

\* GameBoard::drawBorder: what it writes to the terminal
DrawBorderDraws(b) == IF b.borderDrawn THEN {} ELSE {"border"}

\* GameBoard::drawBorder
DrawBorder(b) == [b EXCEPT !.borderDrawn = TRUE]

\* displayHeader without lastLevel = level
DisplayHeaderForgetsLevel(b, sc, hs, length, level) ==
    [b EXCEPT !.lastScore = IF sc # @ THEN sc ELSE @,
              !.lastHighScore = IF hs # @ THEN hs ELSE @,
              !.lastLength = IF length # @ THEN length ELSE @]

\* GameBoard::displayHeader: the remembered stat fields
DisplayHeader(b, sc, hs, length, level) ==
    [b EXCEPT !.lastScore = IF sc # @ THEN sc ELSE @,
              !.lastHighScore = IF hs # @ THEN hs ELSE @,
              !.lastLength = IF length # @ THEN length ELSE @,
              !.lastLevel = IF level # @ THEN level ELSE @]

\* GameBoard::displayHeader: what it writes to the terminal.  "header" is
\* the block under if (!headerDrawn): the title banner, the STATS frame and
\* the CONTROLS and FOOD TYPES boxes; hd is the static headerDrawn.
DisplayHeaderDraws(b, hd, sc, hs, length, level) ==
    (IF ~hd THEN {"header"} ELSE {})
        \cup (IF sc # b.lastScore THEN {"score"} ELSE {})
        \cup (IF hs # b.lastHighScore THEN {"highScore"} ELSE {})
        \cup (IF length # b.lastLength THEN {"length"} ELSE {})
        \cup (IF level # b.lastLevel THEN {"level"} ELSE {})

\* GameBoard::displayPauseMessage
DisplayPauseMessage(b, p) ==
    IF p /\ ~b.wasPaused THEN [b EXCEPT !.wasPaused = TRUE]
    ELSE IF ~p /\ b.wasPaused THEN [b EXCEPT !.wasPaused = FALSE]
    ELSE b

\* GameBoard::resetDrawnFlags
ResetDrawnFlags(b) ==
    [b EXCEPT !.borderDrawn = FALSE, !.lastScore = -1,
              !.lastHighScore = -1, !.lastLength = -1,
              !.lastLevel = EmptyString, !.wasPaused = FALSE]

-----------------------------------------------------------------------------
(* Game                                                                    *)

\* The bytes a key press puts on stdin.  An arrow key is the three bytes
\* ESC [ A..D; a letter key is one byte.
ESC == "ESC"
ArrowSeq(code) == <<ESC, "[", code>>

\* What stdin holds when processInput looks at it: nothing, a letter key
\* (either case), a key the game does not know, an arrow key, or an escape
\* sequence that is cut short or is not an arrow.
InputSeqs ==
    {<<>>} \cup {<<c>> : c \in {"w", "s", "a", "d", "p", "q", "r", "x",
                               "W", "S", "A", "D", "P", "Q", "R"}}
        \cup {ArrowSeq(c) : c \in {"A", "B", "C", "D", "Z"}}
        \cup {<<ESC>>, <<ESC, "x">>, <<ESC, "[">>}

\* What the prompt of handleGameOver can read
PromptKeys == {"r", "R", "q", "Q", "p", "w", "x"}

\* std::tolower on the letters the game reads
ToLower(c) ==
    CASE c = "W" -> "w" [] c = "S" -> "s" [] c = "A" -> "a"
      [] c = "D" -> "d" [] c = "P" -> "p" [] c = "Q" -> "q"
      [] c = "R" -> "r" [] OTHER -> c

\* Game::processInput, the branch for key == 27: the snake after it
EscapeKey(s, inp) ==
    IF Len(inp) >= 2            \* Console::kbhit()
    THEN LET next == inp[2]
         IN  IF next = "["
             THEN IF Len(inp) >= 3      \* Console::kbhit()
                  THEN LET code == inp[3]
                       IN  IF code = "A" THEN SetDirection(s, UP)
                           ELSE IF code = "B" THEN SetDirection(s, DOWN)
                           ELSE IF code = "C" THEN SetDirection(s, RIGHT)
                           ELSE IF code = "D" THEN SetDirection(s, LEFT)
                           ELSE s
                  ELSE s
             ELSE s
    ELSE s

\* the switch with a default that stops the snake
LetterKeySnakeStops(s, key) ==
    CASE key = "w" -> SetDirection(s, UP)
      [] key = "s" -> SetDirection(s, DOWN)
      [] key = "a" -> SetDirection(s, LEFT)
      [] key = "d" -> SetDirection(s, RIGHT)
      [] OTHER -> [s EXCEPT !.direction = STOP]

\* Game::processInput, the switch on std::tolower(key): the snake after it
LetterKeySnake(s, key) ==
    CASE key = "w" -> SetDirection(s, UP)
      [] key = "s" -> SetDirection(s, DOWN)
      [] key = "a" -> SetDirection(s, LEFT)
      [] key = "d" -> SetDirection(s, RIGHT)
      [] OTHER -> s

\* case 'p' written as paused = true
LetterKeyPausedSet(p, key) == IF key = "p" THEN TRUE ELSE p

\* case 'p': paused = !paused
LetterKeyPaused(p, key) == IF key = "p" THEN ~p ELSE p

\* the switch with r quitting as q does
LetterKeyRunningOnR(g, key) == IF key \in {"q", "r"} THEN FALSE ELSE g

\* case 'q': gameRunning = false
LetterKeyRunning(g, key) == IF key = "q" THEN FALSE ELSE g

\* updateGameSpeed without std::max(50, ...)
SpeedNoFloor(level) == BaseSpeed - (level * SpeedStep)

\* updateGameSpeed with the level counted from 0
LevelFromZero(sc) == sc \div LevelScore

\* Game::updateGameSpeed
Level(sc) == sc \div LevelScore + 1
Speed(level) == Max(MinSpeed, BaseSpeed - (level * SpeedStep))

\* saveHighScore that stores nothing
SaveHighScoreNever(sc, hs) == hs

\* a saveHighScore that stores the score of every finished game
SaveHighScoreAlways(sc, hs) == sc

\* Game::saveHighScore
SaveHighScore(sc, hs) == IF sc > hs THEN sc ELSE hs

\* The class specifications' record of the last call: the method and its
\* argument, and what it returned for a method whose result is recorded
NoCall == [name |-> "none", arg |-> "none"]
Call(name, arg) == [name |-> name, arg |-> arg]
Returned(name, arg, ret) == [name |-> name, arg |-> arg, ret |-> ret]

\* What a pause must leave alone: the snake's body and growth flag, the
\* food, the score, the level and the tick interval
PlayState ==
    <<snake.body, snake.growing, food, score, currentLevel, gameSpeed>>

\* pauseMark: no p read last, or the pause flag and PlayState at that read
NoMark == [pressed |-> FALSE, wasPaused |-> FALSE, state |-> <<>>]
Mark(p, st) == [pressed |-> TRUE, wasPaused |-> p, state |-> st]

\* Game::Game
Init ==
    /\ snake = NewSnake
    /\ board = NewBoard(BoardWidth, BoardHeight)
    /\ food \in GenerateFood(NewFood, BoardWidth, BoardHeight, NewSnake.body)
    /\ oldFoodPos = food.position
    /\ headerDrawn = FALSE
    /\ score = 0
    /\ highScore = 0
    /\ gameOver = FALSE
    /\ gameRunning = TRUE
    /\ paused = FALSE
    /\ gameSpeed = InitialSpeed
    /\ currentLevel = LevelLabel(1)
    /\ foodEaten = FALSE
    /\ pc = "welcome"
    /\ moves = 0
    /\ keys = 0
    /\ games = 0
    /\ op = NoCall
    /\ pauseMark = NoMark
    /\ screen = {}
    /\ console = Configured(Cooked)

\* Game::run up to its loop: showWelcomeScreen returns on a key press
Welcome ==
    /\ pc = "welcome"
    /\ pc' = IF gameRunning THEN "input" ELSE "done"
    /\ screen' = {}                 \* Console::clearScreen
    /\ UNCHANGED <<snake, gameVars, moves, keys, games, op, pauseMark,
                   console>>

\* Game::processInput with inp on stdin
ProcessInput(inp) ==
    /\ pc = "input"
    /\ inp # <<>> => keys < MaxKeys
    /\ keys' = IF inp # <<>> THEN keys + 1 ELSE keys
    /\ pc' = "update"
    /\ IF inp = <<>>                \* !Console::kbhit()
       THEN UNCHANGED <<snake, paused, gameRunning>>
       ELSE IF inp[1] = ESC
       THEN /\ snake' = EscapeKey(snake, inp)
            /\ UNCHANGED <<paused, gameRunning>>
       ELSE LET key == ToLower(inp[1])
            IN  /\ snake' = LetterKeySnake(snake, key)
                /\ paused' = LetterKeyPaused(paused, key)
                /\ gameRunning' = LetterKeyRunning(gameRunning, key)
    /\ pauseMark' = IF inp = <<>> THEN pauseMark
                    ELSE IF inp[1] # ESC /\ ToLower(inp[1]) = "p"
                    THEN Mark(paused, PlayState)
                    ELSE NoMark
    /\ UNCHANGED <<food, board, headerDrawn, score, highScore, gameOver,
                   gameSpeed, currentLevel, oldFoodPos, foodEaten, moves,
                   games, op, screen, console>>

\* Game::update
Update ==
    /\ pc = "update"
    /\ pc' = "render"
    /\ UNCHANGED <<board, headerDrawn, highScore, gameRunning, paused, keys,
                   games, op, pauseMark, screen, console>>
    /\ IF gameOver \/ paused
       THEN UNCHANGED <<snake, food, score, gameOver, gameSpeed,
                        currentLevel, oldFoodPos, foodEaten, moves>>
       ELSE LET moved == Move(snake)
                head == GetHead(moved)
            IN  /\ snake.direction # STOP => moves < MaxMoves
                /\ GetLength(moved) <= MaxLen
                /\ moves' = IF snake.direction # STOP THEN moves + 1
                            ELSE moves
                /\ gameSpeed' = Speed(Level(score))
                /\ currentLevel' = LevelLabel(Level(score))
                /\ IF ~IsValidPosition(board, head)
                   THEN /\ gameOver' = TRUE
                        /\ snake' = moved
                        /\ foodEaten' = FALSE
                        /\ UNCHANGED <<food, score, oldFoodPos>>
                   ELSE IF CheckSelfCollision(moved)
                   THEN /\ gameOver' = TRUE
                        /\ snake' = moved
                        /\ foodEaten' = FALSE
                        /\ UNCHANGED <<food, score, oldFoodPos>>
                   ELSE IF head = food.position
                   THEN /\ score' = score + food.value
                        /\ snake' = Grow(moved)
                        /\ foodEaten' = TRUE
                        /\ oldFoodPos' = food.position
                        /\ food' \in GenerateFood(food, board.width,
                                                  board.height, moved.body)
                        /\ UNCHANGED gameOver
                   ELSE /\ snake' = moved
                        /\ foodEaten' = FALSE
                        /\ UNCHANGED <<food, score, gameOver, oldFoodPos>>

\* Game::render: what the GameBoard remembers of it
Render ==
    /\ pc = "render"
    /\ pc' = "post"
    /\ board' = DisplayPauseMessage(
                    DisplayHeader(DrawBorder(board), score, highScore,
                                  GetLength(snake), currentLevel),
                    paused)
    /\ headerDrawn' = TRUE
    /\ screen' = screen \cup DrawBorderDraws(board)
                     \cup DisplayHeaderDraws(board, headerDrawn, score,
                                             highScore, GetLength(snake),
                                             currentLevel)
    /\ UNCHANGED <<snake, food, score, highScore, gameOver, gameRunning,
                   paused, gameSpeed, currentLevel, oldFoodPos, foodEaten,
                   moves, keys, games, op, pauseMark, console>>

\* Game::run, the end of the loop body: handleGameOver up to its prompt,
\* or Console::sleep and the loop test
Post ==
    /\ pc = "post"
    /\ IF gameOver
       THEN /\ highScore' = SaveHighScore(score, highScore)
            /\ pc' = "prompt"
       ELSE /\ pc' = IF gameRunning THEN "input" ELSE "done"
            /\ UNCHANGED highScore
    /\ UNCHANGED <<snake, food, board, headerDrawn, score, gameOver,
                   gameRunning, paused, gameSpeed, currentLevel, oldFoodPos,
                   foodEaten, moves, keys, games, op, pauseMark, screen,
                   console>>

\* Game::restart
Restart ==
    /\ games < MaxGames
    /\ games' = games + 1
    /\ snake' = Reset(snake)
    /\ score' = 0
    /\ gameOver' = FALSE
    /\ paused' = FALSE
    /\ gameSpeed' = InitialSpeed
    /\ currentLevel' = LevelLabel(1)
    /\ food' \in GenerateFood(food, board.width, board.height,
                              Reset(snake).body)
    /\ screen' = {}                 \* Console::clearScreen
    /\ board' = ResetDrawnFlags(board)
    /\ pauseMark' = NoMark
    /\ UNCHANGED <<headerDrawn, highScore, gameRunning, oldFoodPos,
                   foodEaten, moves, keys, op, console>>

\* Game::handleGameOver, the prompt loop reading the key choice
Prompt(choice) ==
    /\ pc = "prompt"
    /\ LET c == ToLower(choice)
       IN  IF c = "r"
           THEN /\ Restart
                /\ pc' = IF gameRunning' THEN "input" ELSE "done"
           ELSE IF c = "q"
           THEN /\ gameRunning' = FALSE
                /\ pc' = "done"
                /\ UNCHANGED <<snake, food, board, headerDrawn, score,
                               highScore, gameOver, paused, gameSpeed,
                               currentLevel, oldFoodPos, foodEaten, moves,
                               keys, games, op, pauseMark, screen,
                               console>>
           ELSE UNCHANGED vars

Next ==
    \/ Welcome
    \/ \E inp \in InputSeqs : ProcessInput(inp)
    \/ Update
    \/ Render
    \/ Post
    \/ \E choice \in PromptKeys : Prompt(choice)

Spec == Init /\ [][Next]_vars

-----------------------------------------------------------------------------
(* The Windows-only variant, src/snakeCycle.cpp.  Its Snake, Food,         *)
(* Game::update, Game::restart and Game::run are those of snake.cpp; its   *)
(* processInput reads the console's extended-key codes, its render keeps   *)
(* no wasPaused, and its handleGameOver reads one key and returns.         *)

\* What the console holds when processInput looks at it: nothing, a letter
\* key, or an extended key: the prefix 0 or 224 and a scan code (the codes
\* are written here as their decimal numerals).
WinInputSeqs ==
    {<<>>} \cup {<<c>> : c \in {"w", "s", "a", "d", "p", "q", "r", "x",
                               "W", "S", "A", "D", "P", "Q", "R"}}
        \cup {<<pre, code>> : pre \in {"0", "224"},
                              code \in {"72", "80", "75", "77", "71"}}

\* processInput, the branch for key == 0 || key == 224: the snake after it
WinExtendedKey(s, code) ==
    CASE code = "72" -> SetDirection(s, UP)
      [] code = "80" -> SetDirection(s, DOWN)
      [] code = "75" -> SetDirection(s, LEFT)
      [] code = "77" -> SetDirection(s, RIGHT)
      [] OTHER -> s

\* Game::Game of snakeCycle.cpp
WinInit ==
    /\ snake = NewSnake
    /\ board = NewBoard(BoardWidth, BoardHeight)
    /\ food \in GenerateFood(NewFood, BoardWidth, BoardHeight, NewSnake.body)
    /\ oldFoodPos = food.position
    /\ headerDrawn = FALSE
    /\ score = 0
    /\ highScore = 0
    /\ gameOver = FALSE
    /\ gameRunning = TRUE
    /\ paused = FALSE
    /\ gameSpeed = InitialSpeed
    /\ currentLevel = LevelLabel(1)
    /\ foodEaten = FALSE
    /\ pc = "welcome"
    /\ moves = 0
    /\ keys = 0
    /\ games = 0
    /\ op = NoCall
    /\ pauseMark = NoMark
    /\ screen = {}
    /\ console = Untouched(Cooked)

\* Game::processInput of snakeCycle.cpp with inp in the console's buffer
WinProcessInput(inp) ==
    /\ pc = "input"
    /\ inp # <<>> => keys < MaxKeys
    /\ keys' = IF inp # <<>> THEN keys + 1 ELSE keys
    /\ pc' = "update"
    /\ IF inp = <<>>                \* !_kbhit()
       THEN UNCHANGED <<snake, paused, gameRunning>>
       ELSE IF inp[1] \in {"0", "224"}
       THEN /\ snake' = WinExtendedKey(snake, inp[2])
            /\ UNCHANGED <<paused, gameRunning>>
       ELSE LET key == ToLower(inp[1])
            IN  /\ snake' = LetterKeySnake(snake, key)
                /\ paused' = LetterKeyPaused(paused, key)
                /\ gameRunning' = LetterKeyRunning(gameRunning, key)
    /\ pauseMark' = IF inp = <<>> THEN pauseMark
                    ELSE IF inp[1] \notin {"0", "224"} /\ ToLower(inp[1]) = "p"
                    THEN Mark(paused, PlayState)
                    ELSE NoMark
    /\ UNCHANGED <<food, board, headerDrawn, score, highScore, gameOver,
                   gameSpeed, currentLevel, oldFoodPos, foodEaten, moves,
                   games, op, screen, console>>

\* Game::render of snakeCycle.cpp: what the GameBoard remembers of it
WinRender ==
    /\ pc = "render"
    /\ pc' = "post"
    /\ board' = DisplayHeader(DrawBorder(board), score, highScore,
                              GetLength(snake), currentLevel)
    /\ headerDrawn' = TRUE
    /\ screen' = screen \cup DrawBorderDraws(board)
                     \cup DisplayHeaderDraws(board, headerDrawn, score,
                                             highScore, GetLength(snake),
                                             currentLevel)
    /\ UNCHANGED <<snake, food, score, highScore, gameOver, gameRunning,
                   paused, gameSpeed, currentLevel, oldFoodPos, foodEaten,
                   moves, keys, games, op, pauseMark, console>>

\* Game::handleGameOver of snakeCycle.cpp from its _getch(): the key read,
\* and the test of the loop of Game::run it returns to
WinPrompt(choice) ==
    /\ pc = "prompt"
    /\ LET c == ToLower(choice)
       IN  IF c = "r"
           THEN Restart
           ELSE IF c = "q"
           THEN /\ gameRunning' = FALSE
                /\ UNCHANGED <<snake, food, board, headerDrawn, score,
                               highScore, gameOver, paused, gameSpeed,
                               currentLevel, oldFoodPos, foodEaten, moves,
                               keys, games, op, pauseMark, screen,
                               console>>
           ELSE UNCHANGED <<snake, food, board, headerDrawn, score,
                            highScore, gameOver, gameRunning, paused,
                            gameSpeed, currentLevel, oldFoodPos, foodEaten,
                            moves, keys, games, op, pauseMark, screen,
                            console>>
    /\ pc' = IF gameRunning' THEN "input" ELSE "done"

WinNext ==
    \/ Welcome
    \/ \E inp \in WinInputSeqs : WinProcessInput(inp)
    \/ Update
    \/ WinRender
    \/ Post
    \/ \E choice \in PromptKeys : WinPrompt(choice)

WinSpec == WinInit /\ [][WinNext]_vars

-----------------------------------------------------------------------------
(* The Snake class on its own: any caller, any order of calls.             *)

SnakeInit ==
    /\ snake = NewSnake
    /\ op = Call("Snake", "none")
    /\ pauseMark = NoMark
    /\ screen = {}
    /\ console = Untouched(Cooked)
    /\ pc = "snake"
    /\ board = NewBoard(BoardWidth, BoardHeight)
    /\ food = NewFood
    /\ oldFoodPos = Position(0, 0)
    /\ headerDrawn = FALSE
    /\ score = 0
    /\ highScore = 0
    /\ gameOver = FALSE
    /\ gameRunning = TRUE
    /\ paused = FALSE
    /\ gameSpeed = InitialSpeed
    /\ currentLevel = LevelLabel(1)
    /\ foodEaten = FALSE
    /\ moves = 0
    /\ keys = 0
    /\ games = 0

\* the head stays in the window explored and the body within MaxLen
InWindow(s) ==
    /\ Len(s.body) <= MaxLen
    /\ Abs(PosX(GetHead(s)) - StartX) <= MaxReach
    /\ Abs(PosY(GetHead(s)) - StartY) <= MaxReach

CallSetDirection(dir) ==
    /\ pc = "snake"
    /\ snake' = SetDirection(snake, dir)
    /\ op' = Call("setDirection", dir)
    /\ UNCHANGED <<gameVars, pc, moves, keys, games, pauseMark, screen,
                   console>>

CallMove ==
    /\ pc = "snake"
    /\ InWindow(Move(snake))
    /\ snake' = Move(snake)
    /\ op' = Call("move", "none")
    /\ UNCHANGED <<gameVars, pc, moves, keys, games, pauseMark, screen,
                   console>>

CallGrow ==
    /\ pc = "snake"
    /\ snake' = Grow(snake)
    /\ op' = Call("grow", "none")
    /\ UNCHANGED <<gameVars, pc, moves, keys, games, pauseMark, screen,
                   console>>

CallReset ==
    /\ pc = "snake"
    /\ snake' = Reset(snake)
    /\ op' = Call("reset", "none")
    /\ UNCHANGED <<gameVars, pc, moves, keys, games, pauseMark, screen,
                   console>>

SnakeNext ==
    \/ \E dir \in Direction : CallSetDirection(dir)
    \/ CallMove
    \/ CallGrow
    \/ CallReset

SnakeSpec == SnakeInit /\ [][SnakeNext]_vars

-----------------------------------------------------------------------------
(* Game::updateGameSpeed on its own, called with any score: SpeedSpec.     *)
(* GameBoard::isValidPosition on its own, called with any cell in or near  *)
(* a board: BoardSpec.  Snake::checkSelfCollision on its own, called with  *)
(* any body: CollisionSpec.                                                *)

\* what these specifications leave as the constructors set it
Constructed ==
    /\ food = NewFood
    /\ oldFoodPos = Position(0, 0)
    /\ headerDrawn = FALSE
    /\ highScore = 0
    /\ gameOver = FALSE
    /\ gameRunning = TRUE
    /\ paused = FALSE
    /\ foodEaten = FALSE
    /\ moves = 0
    /\ keys = 0
    /\ games = 0
    /\ pauseMark = NoMark
    /\ screen = {}

SpeedInit ==
    /\ Constructed
    /\ console = Untouched(Cooked)
    /\ pc = "speed"
    /\ op = Call("Game", "none")
    /\ score \in 0..MaxScore
    /\ gameSpeed = InitialSpeed
    /\ currentLevel = LevelLabel(1)
    /\ snake = NewSnake
    /\ board = NewBoard(BoardWidth, BoardHeight)

\* Game::updateGameSpeed
CallUpdateGameSpeed ==
    /\ pc = "speed"
    /\ gameSpeed' = Speed(Level(score))
    /\ currentLevel' = LevelLabel(Level(score))
    /\ op' = Call("updateGameSpeed", "none")
    /\ UNCHANGED <<snake, food, board, headerDrawn, score, highScore,
                   gameOver, gameRunning, paused, oldFoodPos, foodEaten, pc,
                   moves, keys, games, pauseMark, screen, console>>

SpeedNext == CallUpdateGameSpeed

SpeedSpec == SpeedInit /\ [][SpeedNext]_vars

\* the boards isValidPosition is called on: the game's, and two others
BoardSizes == {<<BoardWidth, BoardHeight>>, <<1, 1>>, <<4, 7>>}

\* the cells it is called with
TestPositions ==
    {Position(x, y) : x \in (0 - Margin)..(BoardWidth + Margin - 1),
                      y \in (0 - Margin)..(BoardHeight + Margin - 1)}

BoardInit ==
    /\ Constructed
    /\ console = Untouched(Cooked)
    /\ pc = "board"
    /\ op = Call("GameBoard", "none")
    /\ \E size \in BoardSizes : board = NewBoard(size[1], size[2])
    /\ score = 0
    /\ gameSpeed = InitialSpeed
    /\ currentLevel = LevelLabel(1)
    /\ snake = NewSnake

\* GameBoard::isValidPosition
CallIsValidPosition(pos) ==
    /\ pc = "board"
    /\ op' = Returned("isValidPosition", pos, IsValidPosition(board, pos))
    /\ UNCHANGED <<snake, gameVars, pc, moves, keys, games, pauseMark,
                   screen, console>>

BoardNext == \E pos \in TestPositions : CallIsValidPosition(pos)

BoardSpec == BoardInit /\ [][BoardNext]_vars

\* the bodies checkSelfCollision is called with: every sequence of up to
\* MaxBody of these cells
TestCells == {Position(StartX, StartY), Position(StartX + 1, StartY),
              Position(StartX, StartY + 1)}

TestBodies == UNION {[1..n -> TestCells] : n \in 0..MaxBody}

CollisionInit ==
    /\ Constructed
    /\ console = Untouched(Cooked)
    /\ pc = "collision"
    /\ op = Call("Snake", "none")
    /\ \E b \in TestBodies :
           snake = [NewSnake EXCEPT !.body = b, !.previousBody = b]
    /\ score = 0
    /\ gameSpeed = InitialSpeed
    /\ currentLevel = LevelLabel(1)
    /\ board = NewBoard(BoardWidth, BoardHeight)

\* Snake::checkSelfCollision
CallCheckSelfCollision ==
    /\ pc = "collision"
    /\ op' = Returned("checkSelfCollision", "none",
                      CheckSelfCollision(snake))
    /\ UNCHANGED <<snake, gameVars, pc, moves, keys, games, pauseMark,
                   screen, console>>

CollisionNext == CallCheckSelfCollision

CollisionSpec == CollisionInit /\ [][CollisionNext]_vars

-----------------------------------------------------------------------------
(* The terminal: main, class Console and sigintHandler, from the start of  *)
(* the process to its end, the game between reduced to its phases.  pc is  *)
(* the statement the process is at; a signal can arrive at any of them.    *)

TermInit ==
    /\ Constructed
    /\ pc = "main"
    /\ op = NoCall
    /\ \E s \in TermiosSettings : console = Untouched(s)
    /\ score = 0
    /\ gameSpeed = InitialSpeed
    /\ currentLevel = LevelLabel(1)
    /\ snake = NewSnake
    /\ board = NewBoard(BoardWidth, BoardHeight)

\* a step of the process to statement to that leaves the Console and the
\* terminal as c
TermStep(c, to) ==
    /\ console' = c
    /\ pc' = to
    /\ UNCHANGED <<snake, gameVars, moves, keys, games, op, pauseMark,
                   screen>>

\* main: std::signal(SIGINT, sigintHandler), std::signal(SIGTERM, ...);
\* Game::Game then calls Console::initialize
InstallHandlers ==
    /\ pc = "main"
    /\ TermStep([console EXCEPT !.handlers = TRUE], "configure")

\* Console::configureTerminal: tcgetattr(STDIN_FILENO, &oldSettings)
ConfigureGet ==
    /\ pc = "configure"
    /\ ~console.terminalConfigured
    /\ TermStep([console EXCEPT !.oldSettings = console.tty],
                "configure_set")

\* Console::configureTerminal: tcsetattr(STDIN_FILENO, TCSANOW, &newSettings)
ConfigureSet ==
    /\ pc = "configure_set"
    /\ TermStep([console EXCEPT !.tty = RawOf(console.oldSettings)],
                "configure_flag")

\* Console::configureTerminal: terminalConfigured = true; Game::run then
\* shows the welcome screen
ConfigureFlag ==
    /\ pc = "configure_flag"
    /\ TermStep([console EXCEPT !.terminalConfigured = TRUE], "welcome")

\* Console::getch_blocking: tcgetattr(STDIN_FILENO, &saved)
BlockingGet ==
    /\ pc = "welcome"
    /\ TermStep([console EXCEPT !.saved = console.tty], "blocking_set")

\* Console::getch_blocking: tcsetattr(STDIN_FILENO, TCSANOW, &blocking)
BlockingSet ==
    /\ pc = "blocking_set"
    /\ TermStep([console EXCEPT !.tty = BlockingOf(console.saved)],
                "blocking_read")

\* Console::getch_blocking: read returns the key
BlockingRead ==
    /\ pc = "blocking_read"
    /\ TermStep(console, "blocking_restore")

\* Console::getch_blocking: tcsetattr(STDIN_FILENO, TCSANOW, &saved)
BlockingRestore ==
    /\ pc = "blocking_restore"
    /\ TermStep([console EXCEPT !.tty = console.saved], "loop")

\* the loop of Game::run: a tick ends the game and handleGameOver prompts
TickEndsGame ==
    /\ pc = "loop"
    /\ TermStep(console, "prompt")

\* handleGameOver reads r
PromptRestart ==
    /\ pc = "prompt"
    /\ TermStep(console, "loop")

\* the quit key while running: the loop ends, Game::run and main return
QuitRunning ==
    /\ pc = "loop"
    /\ TermStep(console, "destructor")

\* handleGameOver reads q
QuitPrompt ==
    /\ pc = "prompt"
    /\ TermStep(console, "destructor")

\* Console::restoreTerminal after its tcsetattr(..., &oldSettings)
RestoredTerminal(c) ==
    IF c.terminalConfigured THEN [c EXCEPT !.tty = c.oldSettings] ELSE c

\* Game::~Game: Console::cleanup, restoreTerminal up to its tcsetattr
RestoreSet ==
    /\ pc = "destructor"
    /\ TermStep(RestoredTerminal(console), "restore_flag")

\* Console::restoreTerminal: terminalConfigured = false; main returns
RestoreFlag ==
    /\ pc = "restore_flag"
    /\ TermStep([console EXCEPT !.terminalConfigured = FALSE,
                                !.exit = "return"],
                "exited")

\* sigintHandler on SIGINT or SIGTERM: Console::cleanup, std::exit(0)
Signal(sig) ==
    /\ console.handlers
    /\ pc # "exited"
    /\ TermStep([RestoredTerminal(console) EXCEPT
                     !.terminalConfigured = FALSE, !.exit = sig],
                "exited")

TermNext ==
    \/ InstallHandlers
    \/ ConfigureGet
    \/ ConfigureSet
    \/ ConfigureFlag
    \/ BlockingGet
    \/ BlockingSet
    \/ BlockingRead
    \/ BlockingRestore
    \/ TickEndsGame
    \/ PromptRestart
    \/ QuitRunning
    \/ QuitPrompt
    \/ RestoreSet
    \/ RestoreFlag
    \/ \E sig \in {"SIGINT", "SIGTERM"} : Signal(sig)

TermSpec == TermInit /\ [][TermNext]_vars

-----------------------------------------------------------------------------
(* Properties of the Snake class, checked under SnakeSpec.                 *)

Opposite(d) ==
    CASE d = UP -> DOWN [] d = DOWN -> UP [] d = LEFT -> RIGHT
      [] d = RIGHT -> LEFT [] OTHER -> d

\* C1: setDirection leaves the direction as it is when the request is the
\* exact opposite of a current direction UP, DOWN, LEFT or RIGHT, and sets
\* it to the request in every other case, any request being accepted when
\* the current direction is STOP.  Nothing else of the snake changes.
C1_SetDirection ==
    [][op'.name = "setDirection" =>
          /\ snake'.direction =
                 IF snake.direction # STOP
                        /\ op'.arg = Opposite(snake.direction)
                 THEN snake.direction
                 ELSE op'.arg
          /\ snake'.body = snake.body
          /\ snake'.growing = snake.growing]_vars

\* a reversal was asked of a moving snake and refused
C1_Witness ==
    /\ op.name = "setDirection"
    /\ snake.direction \in {UP, DOWN, LEFT, RIGHT}
    /\ op.arg = Opposite(snake.direction)
    /\ Len(snake.body) = 4

\* C2: a move with a direction other than STOP keeps the length of the body
\* when the growth flag is false and makes it exactly one longer when the
\* flag is true, and the flag is false after the move either way.
C2_MoveLength ==
    [][op'.name = "move" /\ snake.direction # STOP =>
          /\ Len(snake'.body) =
                 Len(snake.body) + (IF snake.growing THEN 1 ELSE 0)
          /\ snake'.growing = FALSE]_vars

\* a move has just made the body one longer
C2_Witness ==
    /\ op.name = "move"
    /\ snake.direction # STOP
    /\ Len(snake.body) = Len(snake.previousBody) + 1
    /\ ~snake.growing

\* the cell the head moves into
NextHead(s) == Translate(s.body[1], s.direction)

\* C3 as claimed: whenever the cell the head is about to move into is the
\* cell of any segment behind the head, the tail's included,
\* checkSelfCollision is true after the move.
C3_AnySegment ==
    [][op'.name = "move" /\ snake.direction # STOP
           /\ (\E i \in 2..Len(snake.body) : snake.body[i] = NextHead(snake))
       => CheckSelfCollision(snake')]_vars

\* C3 as amended: the same for the segments that are still in the
\* body after the move: every segment behind the head but the last one, and
\* the last one too when the growth flag is set.
C3_KeptSegment ==
    [][op'.name = "move" /\ snake.direction # STOP
           /\ (\E i \in 2..Len(snake.body) :
                  /\ snake.body[i] = NextHead(snake)
                  /\ i < Len(snake.body) \/ snake.growing)
       => CheckSelfCollision(snake')]_vars

\* the head has just moved onto a segment that stayed, and collides
C3_Witness ==
    /\ op.name = "move"
    /\ snake.direction # STOP
    /\ \E i \in 2..(Len(snake.previousBody) - 1) :
           snake.previousBody[i] = snake.body[1]
    /\ CheckSelfCollision(snake)

-----------------------------------------------------------------------------
(* Properties of the game, checked under Spec.                             *)

InBoard(p) ==
    0 <= PosX(p) /\ PosX(p) < BoardWidth /\ 0 <= PosY(p)
        /\ PosY(p) < BoardHeight

OnBody(p, body) == \E i \in DOMAIN body : body[i] = p

\* the end of a loop iteration of Game::run, and the constructed game
EndOfIteration == pc \in {"welcome", "input", "prompt", "done"}

\* C4: in every state after construction, seen at the end of a loop
\* iteration, the food is inside the board and on no segment of the snake's
\* body.
C4_FoodOffSnake ==
    EndOfIteration =>
        InBoard(food.position) /\ ~OnBody(food.position, snake.body)

\* a second game in which food has just been eaten and respawned
C4_Witness ==
    /\ pc = "input"
    /\ games = 1
    /\ foodEaten
    /\ snake.growing
    /\ score > 0

\* the step of the prompt that read r and ran restart
RestartStep == pc = "prompt" /\ gameOver /\ ~gameOver'

\* generateFood has just returned: in update after eating, or in restart
GenerateFoodReturned ==
    \/ pc = "update" /\ foodEaten'
    \/ RestartStep

\* where generateFood may leave the food for the body passed to it
FoodPlaced(f, body) ==
    /\ InBoard(f.position)
    /\ ~OnBody(f.position, body)
    /\ \/ f.value = 10 /\ f.symbol = "*"
       \/ f.value = 50 /\ f.symbol = "$"

\* C5: every call of generateFood that returns (in the constructor, after
\* eating, on restart) leaves the food inside the board, off the body that
\* was passed in, and as one of the two variants: 10 with '*', 50 with '$'.
C5_GenerateFood ==
    /\ pc = "welcome" => FoodPlaced(food, snake.body)
    /\ [][GenerateFoodReturned => FoodPlaced(food', snake'.body)]_vars

\* a bonus food has just been generated after eating
C5_Witness ==
    /\ pc = "render"
    /\ foodEaten
    /\ food.value = 50
    /\ food.position # oldFoodPos

\* a tick of the running game in which the moved head is in the board, hits
\* no segment and is on the food
EatingTick ==
    /\ pc = "update"
    /\ ~gameOver
    /\ ~paused
    /\ InBoard(snake'.body[1])
    /\ \A i \in 2..Len(snake'.body) : snake'.body[i] # snake'.body[1]
    /\ snake'.body[1] = food.position

\* what C6 says of the score, the food and the next move
EatingEffect ==
    /\ score' = score + food.value
    /\ InBoard(food'.position)
    /\ ~OnBody(food'.position, snake'.body)
    /\ Len(Move(snake').body) = Len(snake'.body) + 1

\* C6 as claimed: in such a tick the score grows by the value of the food
\* eaten, the length of the body is unchanged, the food is respawned off the
\* new body, and the body is one longer after the snake's next move.
C6_EatKeepsLength ==
    [][EatingTick => EatingEffect /\ Len(snake'.body) = Len(snake.body)]_vars

\* C6 as amended: the length of the body is unchanged in that tick unless
\* the growth flag was set by food eaten on the move before, and then the
\* body is one longer; the rest as claimed.
C6_Eat ==
    [][EatingTick =>
          /\ EatingEffect
          /\ Len(snake'.body) =
                 Len(snake.body) + (IF snake.growing THEN 1 ELSE 0)]_vars

\* food eaten on two moves in a row: the second eating move grew the body
C6_Witness ==
    /\ pc = "render"
    /\ foodEaten
    /\ snake.growing
    /\ Len(snake.body) = Len(snake.previousBody) + 1
    /\ score >= 20

\* the head is off the board or on another segment
HeadOutOrOnBody(s) ==
    \/ PosX(s.body[1]) < 0
    \/ PosX(s.body[1]) >= BoardWidth
    \/ PosY(s.body[1]) < 0
    \/ PosY(s.body[1]) >= BoardHeight
    \/ \E i \in 2..Len(s.body) : s.body[i] = s.body[1]

\* C7: update in the running game sets gameOver if and only if the moved
\* head is off the board or on another segment of the body, and a tick that
\* sets it leaves the score and the food alone.
C7_GameOverIff ==
    [][pc = "update" /\ ~gameOver /\ ~paused =>
          /\ gameOver' <=> HeadOutOrOnBody(snake')
          /\ gameOver' => score' = score /\ food' = food]_vars

\* the game ended on the bottom wall
C7_Witness ==
    /\ pc = "render"
    /\ gameOver
    /\ PosY(snake.body[1]) = BoardHeight
    /\ ~CheckSelfCollision(snake)

\* C8: the restart key at the prompt leaves the game not over and not
\* paused, with score 0, level 1, the body back at (10,10), (9,10), (8,10),
\* the growth flag false, and the food respawned off that body.
C8_Restart ==
    [][(\E c \in {"r", "R"} : Prompt(c)) =>
          /\ ~gameOver' /\ ~paused'
          /\ score' = 0
          /\ currentLevel' = <<"Level ", 1>>
          /\ snake'.body = <<<<10, 10>>, <<9, 10>>, <<8, 10>>>>
          /\ snake'.growing = FALSE
          /\ InBoard(food'.position)
          /\ ~OnBody(food'.position, snake'.body)]_vars

\* restarted after a game that scored
C8_Witness ==
    /\ pc = "input"
    /\ games = 1
    /\ snake.body = InitialBody
    /\ score = 0
    /\ highScore >= 50
    /\ board.lastLevel = EmptyString

\* C9 as claimed: once the direction is UP, DOWN, LEFT or RIGHT it is never
\* STOP again.
C9_NeverStopAgain ==
    [][snake.direction # STOP => snake'.direction # STOP]_vars

\* C9 as amended: once the direction is UP, DOWN, LEFT or RIGHT, no key and
\* no tick makes it STOP again; only the restart after a game-over does.
C9_StopOnlyByRestart ==
    [][snake.direction # STOP /\ snake'.direction = STOP =>
          RestartStep]_vars

\* the snake of a second game has been started and turned
C9_Witness ==
    /\ games = 1
    /\ snake.direction # STOP
    /\ moves >= 3
    /\ keys = 3
    /\ pc = "input"

\* C10, first part: while the game is paused no step changes the body, the
\* growth flag, the food, the score, the level or the tick interval.
PausedFrozen == paused /\ paused' => UNCHANGED PlayState

\* a p is read right after a p, with no other key in between
SecondPause ==
    pc = "input" /\ keys' # keys /\ pauseMark.pressed /\ pauseMark'.pressed

\* the pause flag and the game are as they were before the first p
BackAsBefore ==
    paused' = pauseMark.wasPaused /\ PlayState' = pauseMark.state

\* C10 as claimed: frozen while paused, and pressing p twice in a row
\* returns the game to the phase it was in with that state intact,
\* whichever phase it was in.
C10_PauseTwice ==
    [][PausedFrozen /\ (SecondPause => BackAsBefore)]_vars

\* C10 as amended: frozen while paused, and pressing p twice in a row in the
\* running game returns it to running with that state intact.  (From the
\* paused game the first p resumes it, and update moves the snake before
\* the second p is read.)
C10_PauseTwiceRunning ==
    [][PausedFrozen
          /\ (SecondPause /\ ~pauseMark.wasPaused => BackAsBefore)]_vars

\* a moving snake has been paused and resumed
C10_Witness ==
    /\ pc = "update"
    /\ pauseMark.pressed
    /\ pauseMark.wasPaused
    /\ ~paused
    /\ snake.direction # STOP
    /\ moves >= 1
    /\ keys = 3


\* C11 as claimed: once the quit key has been read by processInput the
\* program goes to its end with no further key: it never stands at the
\* prompt of handleGameOver, which waits for a key.  (gameRunning is false
\* at the prompt only when q was read by processInput.)
C11_QuitNeedsNoKey == ~gameRunning => pc # "prompt"

\* C12: the high score changes only at the end of the iteration that ended
\* the game, and when the prompt is reached it is the maximum of its value
\* during that game and the game's score; it stays so while the prompt
\* waits for its key.
C12_HighScoreCommitted ==
    /\ [](pc = "prompt" => highScore >= score)
    /\ [][/\ pc # "post" => highScore' = highScore
          /\ pc # "prompt" /\ pc' = "prompt" =>
                 /\ highScore' = (IF score > highScore THEN score
                                  ELSE highScore)
                 /\ score' = score]_vars

\* a second game has ended below the high score of the first, which stays
C12_Witness ==
    /\ pc = "prompt"
    /\ games = 1
    /\ highScore > score
    /\ gameOver


\* C13 as claimed: from a state of game-over every step leaves the game
\* over with snake, food, score, pause flag and running flag as they were,
\* unless it is the restart a read r causes, which leaves the game not over
\* and not paused with the snake and score reset, or the quit a read q
\* causes, which ends the program; no other key has any effect.
GameOverStays ==
    gameOver' /\ pc' # "done"
        /\ UNCHANGED <<snake, food, score, paused, gameRunning>>

GameOverRestarts ==
    ~gameOver' /\ ~paused' /\ snake' = Reset(snake) /\ score' = 0

GameOverQuits ==
    pc' = "done" /\ ~gameRunning' /\ UNCHANGED <<snake, food, score, paused>>

C13_GameOverHolds ==
    [][gameOver => GameOverStays \/ GameOverRestarts \/ GameOverQuits]_vars


\* what stdin can hold that is no direction key, no p and no q: the letters
\* r and x, and the escape sequences that are not an arrow key's
IgnoredInputs ==
    {inp \in InputSeqs :
        /\ inp # <<>>
        /\ inp[1] # ESC =>
               ToLower(inp[1]) \notin {"w", "s", "a", "d", "p", "q"}
        /\ inp[1] = ESC => inp \notin {ArrowSeq(c) : c \in {"A", "B", "C", "D"}}}

\* C14: when processInput reads a key that is not a direction key, p or q
\* (the restart key r among them), the snake's direction and body, the
\* food, the score, the pause flag and the running flag are unchanged.
C14_UnknownKeyIgnored ==
    [][(\E inp \in IgnoredInputs : ProcessInput(inp)) =>
          UNCHANGED <<snake, food, score, paused, gameRunning>>]_vars

\* such a key has been read in the paused game: the last key read was not
\* p, yet the game is paused, the snake has never been started and the
\* game has not been quit
C14_Witness ==
    /\ pc = "update"
    /\ games = 0
    /\ keys = 3
    /\ paused
    /\ pauseMark = NoMark
    /\ snake.direction = STOP
    /\ gameRunning


\* C16 as claimed: within one game, that is in every step but the restart,
\* the tick interval gameSpeed does not increase, and it is never below 50.
C16_SpeedNeverIncreases ==
    [][~RestartStep => gameSpeed' <= gameSpeed /\ gameSpeed' >= 50]_vars

\* the render that follows a restart: the first of a later game
RenderAfterRestart == pc = "render" /\ games > 0 /\ ~board.borderDrawn

\* C19 as claimed: the render that follows a restart leaves the border,
\* the four stat fields and the header with its panels on the terminal.
C19_FullRedraw ==
    [][RenderAfterRestart => screen' = ScreenElements]_vars

-----------------------------------------------------------------------------
(* Properties of single functions, checked under SpeedSpec, BoardSpec and  *)
(* CollisionSpec.                                                          *)

\* the claim's level(s) and tickIntervalMs(s)
ClaimLevel(s) == s \div 100 + 1
ClaimTick(s) ==
    IF 200 - 15 * ClaimLevel(s) >= 50 THEN 200 - 15 * ClaimLevel(s) ELSE 50

\* C15: updateGameSpeed called with a score s2 >= 0 leaves the level
\* s2/100 + 1 and the tick interval max(50, 200 - 15*level); for every score
\* s1 with 0 <= s1 < s2 the level is at least level(s1) and the interval at
\* most tickIntervalMs(s1); and the interval is at least 50.
C15_SpeedMonotone ==
    op.name = "updateGameSpeed" =>
        /\ currentLevel = <<"Level ", ClaimLevel(score)>>
        /\ gameSpeed = ClaimTick(score)
        /\ gameSpeed >= 50
        /\ \A s1 \in 0..(score - 1) :
               /\ Level(s1) = ClaimLevel(s1)
               /\ Speed(Level(s1)) = ClaimTick(s1)
               /\ currentLevel[2] >= Level(s1)
               /\ gameSpeed <= Speed(Level(s1))

\* updateGameSpeed has been called with a score at which the floor holds
C15_Witness ==
    /\ op.name = "updateGameSpeed"
    /\ score = 1000
    /\ gameSpeed = 50
    /\ currentLevel = <<"Level ", 11>>

\* C17: isValidPosition(p) is true exactly when 0 <= p.x < width and
\* 0 <= p.y < height, and so false for x < 0, x >= width, y < 0, y >= height.
C17_IsValidPosition ==
    op.name = "isValidPosition" =>
        LET x == op.arg[1]
            y == op.arg[2]
        IN  /\ op.ret <=> (0 <= x /\ x < board.width /\ 0 <= y
                               /\ y < board.height)
            /\ (x < 0 \/ x >= board.width \/ y < 0 \/ y >= board.height)
                   => op.ret = FALSE

\* it has been called with the first cell right of the game's board
C17_Witness ==
    /\ op.name = "isValidPosition"
    /\ board.width = 30
    /\ board.height = 20
    /\ op.arg = <<30, 10>>
    /\ op.ret = FALSE

\* no two segments of the body are on the same cell
PairwiseDistinct(body) ==
    \A i, j \in 1..Len(body) : i # j => body[i] # body[j]

\* C18: checkSelfCollision returns true exactly when the head's cell is the
\* cell of some other segment, and false for every body whose cells are
\* pairwise distinct.
C18_CheckSelfCollision ==
    op.name = "checkSelfCollision" =>
        /\ op.ret <=> (\E i \in 2..Len(snake.body) :
                          snake.body[i] = snake.body[1])
        /\ PairwiseDistinct(snake.body) => op.ret = FALSE

\* it has returned true for a head on the last of four segments only
C18_Witness ==
    /\ op.name = "checkSelfCollision"
    /\ Len(snake.body) = 4
    /\ snake.body[1] = snake.body[4]
    /\ snake.body[1] # snake.body[2]
    /\ snake.body[1] # snake.body[3]
    /\ op.ret = TRUE


-----------------------------------------------------------------------------
(* Properties of the terminal, checked under TermSpec.                     *)

\* C20 as claimed: however the process ends (the quit key while running,
\* the quit key at the prompt, SIGINT or SIGTERM at any statement once the
\* handlers are installed), the terminal then has the settings it had when
\* the process started.
C20_TerminalRestored == pc = "exited" => console.tty = console.initial

-----------------------------------------------------------------------------
(* Food::generateFood on its own, statement by statement, called with any  *)
(* body on a small board: FoodSpec.  rand() is fair: a cell that can be    *)
(* drawn again and again is drawn in the end.                              *)

\* FoodSpec: the bodies generateFood is called with are up to this long
MaxFoodBody == 4
\* FoodSpec: the samples the loop has rejected are counted up to this many
MaxRejected == 2

\* the boards generateFood is called on
FoodBoards == {<<1, 1>>, <<2, 1>>, <<2, 2>>}

\* the values rand() % width and rand() % height can take
Cells(width, height) ==
    {Position(x, y) : x \in 0..(width - 1), y \in 0..(height - 1)}

\* the bodies passed to it: every sequence of up to MaxFoodBody cells of
\* the board
FoodBodies(width, height) ==
    UNION {[1..n -> Cells(width, height)] : n \in 0..MaxFoodBody}

FoodInit ==
    /\ Constructed
    /\ console = Untouched(Cooked)
    /\ pc = "sample"
    /\ op = Call("generateFood", 0)
    /\ \E size \in FoodBoards :
           /\ board = NewBoard(size[1], size[2])
           /\ \E b \in FoodBodies(size[1], size[2]) :
                  snake = [NewSnake EXCEPT !.body = b, !.previousBody = b]
    /\ score = 0
    /\ gameSpeed = InitialSpeed
    /\ currentLevel = LevelLabel(1)

\* a step of generateFood to statement to that leaves the food as f and has
\* rejected n samples so far
FoodStep(f, n, to) ==
    /\ food' = f
    /\ op' = Call("generateFood", n)
    /\ pc' = to
    /\ UNCHANGED <<snake, board, headerDrawn, score, highScore, gameOver,
                   gameRunning, paused, gameSpeed, currentLevel, oldFoodPos,
                   foodEaten, moves, keys, games, pauseMark, screen,
                   console>>

\* the body of the do-while loop: position.x = rand() % width;
\* position.y = rand() % height, the two draws giving the cell pos
SampleCell(pos) ==
    /\ pc = "sample"
    /\ pos \in Cells(board.width, board.height)
    /\ FoodStep([food EXCEPT !.position = pos], op.arg, "test")

\* the while test of the loop finds the position in snakeBody: once more
SampleRejected ==
    /\ pc = "test"
    /\ ~FoodLoopExit(snake.body, food.position)
    /\ FoodStep(food, IF op.arg < MaxRejected THEN op.arg + 1 ELSE op.arg,
                "sample")

\* the while test does not find it: the loop ends
SampleAccepted ==
    /\ pc = "test"
    /\ FoodLoopExit(snake.body, food.position)
    /\ FoodStep(food, op.arg, "variant")

\* if (rand() % 10 == 0) ... else ..., and the return
ChooseVariant(r) ==
    /\ pc = "variant"
    /\ FoodStep(FoodVariant(food, r), op.arg, "returned")

FoodNext ==
    \/ \E pos \in Cells(2, 2) : SampleCell(pos)
    \/ SampleRejected
    \/ SampleAccepted
    \/ \E r \in 0..(BonusOdds - 1) : ChooseVariant(r)

\* every statement is executed in the end, and rand() is fair
FoodFairness ==
    /\ \A pos \in Cells(2, 2) : SF_vars(SampleCell(pos))
    /\ WF_vars(SampleRejected)
    /\ WF_vars(SampleAccepted)
    /\ WF_vars(\E r \in 0..(BonusOdds - 1) : ChooseVariant(r))

FoodSpec == FoodInit /\ [][FoodNext]_vars /\ FoodFairness

-----------------------------------------------------------------------------
(* Properties of Food::generateFood, checked under FoodSpec.               *)

\* some cell of the board is not a cell of the body passed in
FreeCellExists ==
    \E p \in Cells(board.width, board.height) : ~OnBody(p, snake.body)

\* C21: generateFood returns in the end whenever some cell of the board is
\* not occupied by the body passed to it, rand() being fair; when the body
\* occupies every cell of the board it never returns.
C21_GenerateFoodTerminates ==
    /\ [](FreeCellExists => <>(pc = "returned"))
    /\ [](~FreeCellExists => pc # "returned")

\* it has returned on a 2x2 board with one free cell, after the loop had
\* rejected samples
C21_Witness ==
    /\ pc = "returned"
    /\ board.width = 2 /\ board.height = 2
    /\ Cardinality({p \in Cells(2, 2) : OnBody(p, snake.body)}) = 3
    /\ op.arg = MaxRejected
    /\ ~OnBody(food.position, snake.body)

-----------------------------------------------------------------------------
(* The game of snake.cpp played to its end: CycleSpec.  The player steers  *)
(* the snake along a closed path through all cells of the 30x20 board, on  *)
(* which (8,10), (9,10), (10,10) follow each other: right along the even   *)
(* rows, left along the odd rows down to column 1, and up column 0.  The   *)
(* snake never meets a wall or itself and eats every food.                 *)

\* CycleSpec: for bodies up to this long rand() in generateFood is explored
\* for two cells and both variants, for longer bodies for one
MaxChoiceLen == 4

\* the direction the player takes in cell p
CycleDir(p) ==
    IF PosX(p) = 0 /\ PosY(p) > 0 THEN UP
    ELSE IF PosY(p) % 2 = 0
    THEN IF PosX(p) < BoardWidth - 1 THEN RIGHT ELSE DOWN
    ELSE IF PosX(p) > 1 THEN LEFT
    ELSE IF PosY(p) = BoardHeight - 1 THEN LEFT ELSE DOWN

\* the cell after p on the path
CycleNext(p) == Translate(p, CycleDir(p))

\* the key the player presses for a direction
DirKey(d) ==
    CASE d = UP -> "w" [] d = DOWN -> "s" [] d = LEFT -> "a"
      [] d = RIGHT -> "d"

\* The pairs (rand() % width, rand() % height) explored: the cell ahead of
\* the head of snakeBody on the path and, for a short body, the one after
CycleSamples(snakeBody) ==
    {CycleNext(snakeBody[1])}
        \cup (IF Len(snakeBody) <= MaxChoiceLen
              THEN {CycleNext(CycleNext(snakeBody[1]))} ELSE {})

\* the draws rand() % 10 explored
CycleDraws(snakeBody) ==
    IF Len(snakeBody) <= MaxChoiceLen THEN 0..(BonusOdds - 1) ELSE {1}

\* Food::generateFood: the Food objects a call that returns can leave
CycleGenerateFood(f, snakeBody) ==
    {FoodVariant([f EXCEPT !.position = pos], r) :
        pos \in {p \in CycleSamples(snakeBody) : FoodLoopExit(snakeBody, p)},
        r \in CycleDraws(snakeBody)}

\* Game::Game
CycleInit ==
    /\ snake = NewSnake
    /\ board = NewBoard(BoardWidth, BoardHeight)
    /\ food \in CycleGenerateFood(NewFood, NewSnake.body)
    /\ oldFoodPos = food.position
    /\ headerDrawn = FALSE
    /\ score = 0
    /\ highScore = 0
    /\ gameOver = FALSE
    /\ gameRunning = TRUE
    /\ paused = FALSE
    /\ gameSpeed = InitialSpeed
    /\ currentLevel = LevelLabel(1)
    /\ foodEaten = FALSE
    /\ pc = "welcome"
    /\ moves = 0
    /\ keys = 0
    /\ games = 0
    /\ op = NoCall
    /\ pauseMark = NoMark
    /\ screen = {}
    /\ console = Configured(Cooked)

\* Game::processInput with the player's key on stdin
CycleProcessInput ==
    /\ pc = "input"
    /\ pc' = "update"
    /\ LET key == ToLower(DirKey(CycleDir(GetHead(snake))))
       IN  /\ snake' = LetterKeySnake(snake, key)
           /\ paused' = LetterKeyPaused(paused, key)
           /\ gameRunning' = LetterKeyRunning(gameRunning, key)
    /\ UNCHANGED <<food, board, headerDrawn, score, highScore, gameOver,
                   gameSpeed, currentLevel, oldFoodPos, foodEaten, moves,
                   keys, games, op, pauseMark, screen, console>>

\* Game::update up to its call of food.generateFood, or to its end
CycleUpdate ==
    /\ pc = "update"
    /\ UNCHANGED <<food, board, headerDrawn, highScore, gameRunning, paused,
                   moves, keys, games, op, pauseMark, screen, console>>
    /\ IF gameOver \/ paused
       THEN /\ pc' = "render"
            /\ UNCHANGED <<snake, score, gameOver, gameSpeed, currentLevel,
                           oldFoodPos, foodEaten>>
       ELSE LET moved == Move(snake)
                head == GetHead(moved)
            IN  /\ gameSpeed' = Speed(Level(score))
                /\ currentLevel' = LevelLabel(Level(score))
                /\ IF ~IsValidPosition(board, head)
                   THEN /\ gameOver' = TRUE
                        /\ snake' = moved
                        /\ foodEaten' = FALSE
                        /\ pc' = "render"
                        /\ UNCHANGED <<score, oldFoodPos>>
                   ELSE IF CheckSelfCollision(moved)
                   THEN /\ gameOver' = TRUE
                        /\ snake' = moved
                        /\ foodEaten' = FALSE
                        /\ pc' = "render"
                        /\ UNCHANGED <<score, oldFoodPos>>
                   ELSE IF head = food.position
                   THEN /\ score' = score + food.value
                        /\ snake' = Grow(moved)
                        /\ foodEaten' = TRUE
                        /\ oldFoodPos' = food.position
                        /\ pc' = "generate"
                        /\ UNCHANGED gameOver
                   ELSE /\ snake' = moved
                        /\ foodEaten' = FALSE
                        /\ pc' = "render"
                        /\ UNCHANGED <<score, gameOver, oldFoodPos>>

\* Game::update: food.generateFood(...) returns
CycleFoodReturns ==
    /\ pc = "generate"
    /\ pc' = "render"
    /\ food' \in CycleGenerateFood(food, snake.body)
    /\ UNCHANGED <<snake, board, headerDrawn, score, highScore, gameOver,
                   gameRunning, paused, gameSpeed, currentLevel, oldFoodPos,
                   foodEaten, moves, keys, games, op, pauseMark, screen,
                   console>>

CycleNextStep ==
    \/ Welcome
    \/ CycleProcessInput
    \/ CycleUpdate
    \/ CycleFoodReturns
    \/ Render
    \/ Post

CycleSpec == CycleInit /\ [][CycleNextStep]_vars

-----------------------------------------------------------------------------
(* Properties of the game played to its end, checked under CycleSpec.      *)

\* the cells the body occupies
BodyCells(body) == {body[i] : i \in DOMAIN body}

\* C22 as claimed: whenever update calls generateFood, the number of
\* distinct cells occupied by the body it passes is strictly less than
\* width*height.
C22_FreeCellAtCall ==
    pc = "generate" =>
        Cardinality(BodyCells(snake.body)) < board.width * board.height

-----------------------------------------------------------------------------
(* Further properties of the game, checked under Spec.                     *)

\* C23 as claimed: in every reachable state of the game, the states of
\* game-over included, no two segments of the body are on the same cell.
C23_AlwaysDistinct == PairwiseDistinct(snake.body)

\* C23 as amended: no two segments are on the same cell in any state in
\* which the game is not over; in game-over the segments behind the head
\* are still on distinct cells, and the head is on the cell of one of them
\* exactly when the game ended by a self-collision.
C23_DistinctUnlessOver ==
    /\ ~gameOver => PairwiseDistinct(snake.body)
    /\ PairwiseDistinct(Tail(snake.body))
    /\ gameOver =>
           (PairwiseDistinct(snake.body) <=> ~CheckSelfCollision(snake))

\* a grown snake has turned a corner and the game goes on
C23_Witness ==
    /\ ~gameOver
    /\ pc = "render"
    /\ Len(snake.body) = 4
    /\ PosX(snake.body[1]) # PosX(snake.body[4])
    /\ PosY(snake.body[1]) # PosY(snake.body[4])
    /\ moves >= 4

\* the snakes whose direction is STOP: every body of up to MaxBody of the
\* TestCells, any snapshot of the same kind, either growth flag
StoppedSnakes ==
    {[body |-> b, previousBody |-> pb, direction |-> STOP, growing |-> g] :
        b \in TestBodies \ {<<>>}, pb \in {<<>>, InitialBody}, g \in BOOLEAN}

\* C24: while the direction is STOP, move leaves the body, the previous-body
\* snapshot and the growth flag as they are, and a tick of the running game
\* in that state leaves the snake, the score and the food unchanged and the
\* game not over.
C24_StoppedTick ==
    /\ \A s \in StoppedSnakes : Move(s) = s
    /\ [][pc = "update" /\ ~gameOver /\ ~paused /\ snake.direction = STOP =>
             /\ Move(snake) = snake
             /\ snake' = snake
             /\ ~gameOver'
             /\ score' = score
             /\ food' = food]_vars

\* a tick of the second game has run with the snake not yet started: the
\* tick interval is the one updateGameSpeed sets
C24_Witness ==
    /\ pc = "render"
    /\ games = 1
    /\ snake.direction = STOP
    /\ ~gameOver
    /\ ~paused
    /\ gameSpeed = Speed(1)

-----------------------------------------------------------------------------
(* GameBoard::displayHeader and resetDrawnFlags on their own, called in    *)
(* any order with any of a few values: HeaderSpec.                         *)

\* the arguments displayHeader is called with: score, highScore, length
\* and level
HeaderArgs ==
    {<<sc, hs, length, level>> :
        sc \in {-1, 0, 10}, hs \in {0, 10}, length \in {3, 4},
        level \in {EmptyString, LevelLabel(1), LevelLabel(2)}}

HeaderInit ==
    /\ Constructed
    /\ console = Untouched(Cooked)
    /\ pc = "header"
    /\ op = Call("GameBoard", "none")
    /\ board = NewBoard(BoardWidth, BoardHeight)
    /\ score = 0
    /\ gameSpeed = InitialSpeed
    /\ currentLevel = LevelLabel(1)
    /\ snake = NewSnake

\* GameBoard::displayHeader
CallDisplayHeader(a) ==
    /\ pc = "header"
    /\ board' = DisplayHeader(board, a[1], a[2], a[3], a[4])
    /\ headerDrawn' = TRUE
    /\ screen' = screen \cup DisplayHeaderDraws(board, headerDrawn, a[1],
                                                a[2], a[3], a[4])
    /\ op' = Returned("displayHeader", a,
                      DisplayHeaderDraws(board, headerDrawn, a[1], a[2],
                                         a[3], a[4]))
    /\ UNCHANGED <<snake, food, score, highScore, gameOver, gameRunning,
                   paused, gameSpeed, currentLevel, oldFoodPos, foodEaten,
                   pc, moves, keys, games, pauseMark, console>>

\* GameBoard::resetDrawnFlags
CallResetDrawnFlags ==
    /\ pc = "header"
    /\ board' = ResetDrawnFlags(board)
    /\ op' = Call("resetDrawnFlags", "none")
    /\ UNCHANGED <<snake, food, headerDrawn, score, highScore, gameOver,
                   gameRunning, paused, gameSpeed, currentLevel, oldFoodPos,
                   foodEaten, pc, moves, keys, games, pauseMark, screen,
                   console>>

HeaderNext ==
    \/ \E a \in HeaderArgs : CallDisplayHeader(a)
    \/ CallResetDrawnFlags

HeaderSpec == HeaderInit /\ [][HeaderNext]_vars

\* C25: a call of displayHeader writes the score, the high score, the
\* length or the level label exactly when the value passed differs from the
\* one remembered from the call before (or from the constructor or
\* resetDrawnFlags), and after the call each remembered value is the value
\* passed in.
C25_HeaderDiff ==
    [][op'.name = "displayHeader" =>
          LET a == op'.arg
          IN  /\ "score" \in op'.ret <=> a[1] # board.lastScore
              /\ "highScore" \in op'.ret <=> a[2] # board.lastHighScore
              /\ "length" \in op'.ret <=> a[3] # board.lastLength
              /\ "level" \in op'.ret <=> a[4] # board.lastLevel
              /\ board'.lastScore = a[1]
              /\ board'.lastHighScore = a[2]
              /\ board'.lastLength = a[3]
              /\ board'.lastLevel = a[4]]_vars

\* a call has written the length and nothing else
C25_Witness ==
    /\ op.name = "displayHeader"
    /\ op.ret = {"length"}
    /\ op.arg = <<10, 10, 4, LevelLabel(2)>>
    /\ board.lastLength = 4

-----------------------------------------------------------------------------
(* Properties of the game's keys and ticks, checked under Spec.            *)

\* C26 as claimed: no move of the snake in update puts the new head on the
\* cell of the segment that was directly behind the head before the move.
C26_NoMoveIntoNeck ==
    [][pc = "update" /\ snake'.body # snake.body =>
          snake'.body[1] # snake.body[2]]_vars

\* C27 as claimed: while the game is paused, no key read by processInput
\* changes the snake's direction.
C27_PausedKeepsDirection ==
    [][pc = "input" /\ paused /\ ~gameOver =>
          snake'.direction = snake.direction]_vars

-----------------------------------------------------------------------------
(* Further properties of the Snake class, checked under SnakeSpec.         *)

\* the claim's unit vectors: UP y-1, DOWN y+1, LEFT x-1, RIGHT x+1
ClaimTranslate(p, d) ==
    <<p[1] + (IF d = "RIGHT" THEN 1 ELSE IF d = "LEFT" THEN -1 ELSE 0),
      p[2] + (IF d = "DOWN" THEN 1 ELSE IF d = "UP" THEN -1 ELSE 0)>>

\* C28: a move with a direction d other than STOP makes the pre-move body
\* the previous-body snapshot, and the new body is the old head translated
\* by d's unit vector followed by the old body, without its last segment
\* when the growth flag was false and whole when it was true.
C28_Move ==
    [][op'.name = "move" /\ snake.direction # STOP =>
          /\ snake'.previousBody = snake.body
          /\ snake'.body[1] = ClaimTranslate(snake.body[1], snake.direction)
          /\ snake'.body =
                 <<ClaimTranslate(snake.body[1], snake.direction)>>
                     \o (IF snake.growing THEN snake.body
                         ELSE SubSeq(snake.body, 1, Len(snake.body) - 1))
          /\ snake'.direction = snake.direction]_vars

\* a growing snake has just moved up: the whole old body follows the head
C28_Witness ==
    /\ op.name = "move"
    /\ snake.direction = UP
    /\ Len(snake.body) = 4
    /\ Len(snake.previousBody) = 3
    /\ snake.body = <<<<snake.previousBody[1][1],
                        snake.previousBody[1][2] - 1>>>>
                        \o snake.previousBody

\* the end of a loop iteration in which the game is running: the sleep of
\* Game::run
RunningIterationEnd == pc = "post" /\ ~gameOver /\ ~paused

\* the level label and the tick interval are those of score s
LevelAndSpeedOf(s) ==
    /\ currentLevel = <<"Level ", ClaimLevel(s)>>
    /\ gameSpeed = ClaimTick(s)

\* C29 as claimed: at the end of every loop iteration in which the game is
\* running, the level label is that of score/100 + 1 for the current score
\* and the tick interval max(50, 200 - 15*level) for that level.
C29_LevelOfScore == RunningIterationEnd => LevelAndSpeedOf(score)

\* C29 as amended: a tick of the running game sets the level label and the
\* tick interval from the score the tick starts with, and the rest of the
\* iteration leaves them and the score alone; so at the end of such an
\* iteration they are those of the current score unless food was eaten in
\* this tick, and then those of the score before the food's value was added.
C29_LevelOfTickStart ==
    /\ [](RunningIterationEnd /\ ~foodEaten => LevelAndSpeedOf(score))
    /\ [](RunningIterationEnd /\ foodEaten =>
              \E v \in {CommonValue, BonusValue} : LevelAndSpeedOf(score - v))
    /\ [][/\ pc = "update" /\ ~gameOver /\ ~paused =>
                 /\ currentLevel' = <<"Level ", ClaimLevel(score)>>
                 /\ gameSpeed' = ClaimTick(score)
          /\ pc \in {"render", "post"} =>
                 UNCHANGED <<currentLevel, gameSpeed, score>>]_vars

\* the second bonus food has just been eaten: the score is 100, the level
\* label and the tick interval still those of 50
C29_Witness ==
    /\ RunningIterationEnd
    /\ foodEaten
    /\ score = 100
    /\ currentLevel = <<"Level ", 1>>
    /\ gameSpeed = 185

\* C30 as claimed: once processInput has read the quit key in the running
\* game (gameRunning is false from then on), no step changes the snake's
\* body, the score, the food or the game-over flag: they are at the
\* program's end what they were when the key was read.
C30_QuitFreezes ==
    [][~gameRunning => UNCHANGED <<snake.body, score, food, gameOver>>]_vars

-----------------------------------------------------------------------------
(* Properties of the scores, checked under Spec.                           *)

\* Game::showGameOverScreen: the two numbers the overlay displays
ShowGameOverScreen(sc, hs) == [finalScore |-> sc, highScore |-> hs]

\* C31 as claimed: whenever render draws the game-over overlay, the high
\* score it displays is at least the final score it displays.
C31_OverlayHighScore ==
    pc = "render" /\ gameOver =>
        ShowGameOverScreen(score, highScore).highScore
            >= ShowGameOverScreen(score, highScore).finalScore

-----------------------------------------------------------------------------
(* Properties of the snake in the game, checked under Spec.                *)

\* the length the body has or is about to have: one more when the growth
\* flag is set
DueLength(s) == Len(s.body) + (IF s.growing THEN 1 ELSE 0)

\* C32: the body's length plus one for a set growth flag is 3 after
\* construction and after a restart, goes up by exactly one in every tick
\* in which food is eaten (so also when food is eaten on consecutive ticks)
\* and is changed by no other step: it is 3 plus the number of foods eaten
\* in the game.  The body always has at least 3 segments, and its length
\* does not decrease but by a restart.
C32_LengthCountsFood ==
    /\ DueLength(snake) = 3
    /\ [](Len(snake.body) >= 3)
    /\ [][/\ DueLength(snake') =
                 IF RestartStep THEN 3
                 ELSE IF EatingTick THEN DueLength(snake) + 1
                 ELSE DueLength(snake)
          /\ ~RestartStep => Len(snake'.body) >= Len(snake.body)]_vars

\* food was eaten on the first two ticks of the first game: four segments,
\* and the fifth due
C32_Witness ==
    /\ games = 0
    /\ moves = 2
    /\ Len(snake.body) = 4
    /\ snake.growing
    /\ DueLength(snake) = 5
    /\ score \in {20, 60, 100}
    /\ pc = "post"

\* C33: whenever the game is not over, at the end of a loop iteration and
\* at every step between, every segment of the body is inside the board:
\* 0 <= x < width and 0 <= y < height.
C33_BodyInBoard ==
    ~gameOver =>
        \A i \in 1..Len(snake.body) :
            /\ 0 <= snake.body[i][1] /\ snake.body[i][1] < board.width
            /\ 0 <= snake.body[i][2] /\ snake.body[i][2] < board.height

\* an iteration has ended with the head in the bottom row, the game going on
C33_Witness ==
    /\ pc = "input"
    /\ ~gameOver
    /\ ~paused
    /\ snake.direction = DOWN
    /\ snake.body[1] = <<StartX, BoardHeight - 1>>
    /\ moves = 9

-----------------------------------------------------------------------------
(* The game of snake.cpp with the board area of the terminal: DrawSpec.    *)
(* Here screen is the set of <<cell, character>> for the cells of the      *)
(* board that do not show a blank; cell (x, y) of the board is the         *)
(* terminal's column x + 1 and row y + 4.                                  *)

\* std::cout << ch after Console::gotoxy at the place of cell pos
PutChar(g, pos, ch) ==
    {e \in g : e[1] # pos} \cup (IF ch = " " THEN {} ELSE {<<pos, ch>>})

\* the writes of the sequence w, pairs <<cell, character>>, in their order
RECURSIVE WriteAll(_, _)
WriteAll(g, w) ==
    IF w = <<>> THEN g
    ELSE WriteAll(PutChar(g, Head(w)[1], Head(w)[2]), Tail(w))

\* the character the terminal shows on cell pos
Shown(g, pos) ==
    IF \E e \in g : e[1] = pos THEN (CHOOSE e \in g : e[1] = pos)[2]
    ELSE " "

\* GameBoard::eraseFood: its writes
EraseFoodWrites(b, pos) ==
    IF IsValidPosition(b, pos) THEN <<<<pos, " ">>>> ELSE <<>>

\* the switch of drawSnake on the direction
HeadGlyph(dir) ==
    CASE dir = UP -> "^" [] dir = DOWN -> "v" [] dir = LEFT -> "<"
      [] dir = RIGHT -> ">" [] OTHER -> "@"

\* GameBoard::drawSnake: its writes
DrawSnakeWrites(b, s) ==
    LET erased == SelectSeq([i \in 1..Len(s.previousBody) |->
                                 <<s.previousBody[i], " ">>],
                            LAMBDA w : /\ ~Contains(s.body, w[1])
                                       /\ IsValidPosition(b, w[1]))
        head == IF Len(s.body) > 0 /\ IsValidPosition(b, s.body[1])
                THEN <<<<s.body[1], HeadGlyph(s.direction)>>>>
                ELSE <<>>
        segments == SelectSeq([i \in 1..(Len(s.body) - 1) |->
                                   <<s.body[i + 1], "o">>],
                              LAMBDA w : IsValidPosition(b, w[1]))
    IN  erased \o head \o segments

\* GameBoard::drawFood: its writes
DrawFoodWrites(b, f) ==
    IF IsValidPosition(b, f.position)
    THEN <<<<f.position, f.symbol>>>>
    ELSE <<>>

\* the cells of a text of n characters written from the terminal's column
\* cx in row cy
TextCells(cx, cy, n) == [i \in 1..n |-> Position(cx + i - 2, cy - 4)]

\* GameBoard::displayPauseMessage: its writes, at
\* gotoxy(width / 2 - 3, height / 2 + 4)
PauseMessageWrites(b, p) ==
    LET at == TextCells(b.width \div 2 - 3, b.height \div 2 + 4, 6)
        paused_text == <<"P", "A", "U", "S", "E", "D">>
    IN  IF p /\ ~b.wasPaused
        THEN [i \in 1..6 |-> <<at[i], paused_text[i]>>]
        ELSE IF ~p /\ b.wasPaused
        THEN [i \in 1..6 |-> <<at[i], " ">>]
        ELSE <<>>

\* Game::showGameOverScreen: the cells its box of six lines of 20
\* characters and its line of 35 characters cover
OverlayCells(b) ==
    {Position(x, y) :
        x \in (b.width \div 2 - 11)..(b.width \div 2 + 8),
        y \in (b.height \div 2 - 2)..(b.height \div 2 + 3)}
    \cup {Position(x, b.height \div 2 + 5) :
              x \in (b.width \div 2 - 16)..(b.width \div 2 + 18)}

\* the board area after the overlay is drawn, its characters all shown as #
ShowGameOverScreenOn(g, b) ==
    {e \in g : e[1] \notin OverlayCells(b)}
        \cup {<<c, "#">> : c \in {o \in OverlayCells(b) :
                                     IsValidPosition(b, o)}}

\* the cells of the board only: a write beside it is not recorded
OnBoardOnly(g, b) == {e \in g : IsValidPosition(b, e[1])}

\* Game::render: the GameBoard's memory as in Render, and the board area
DrawRender ==
    /\ pc = "render"
    /\ pc' = "post"
    /\ board' = DisplayPauseMessage(
                    DisplayHeader(DrawBorder(board), score, highScore,
                                  GetLength(snake), currentLevel),
                    paused)
    /\ headerDrawn' = TRUE
    /\ LET drawn == WriteAll(screen,
                        (IF foodEaten THEN EraseFoodWrites(board, oldFoodPos)
                         ELSE <<>>)
                            \o DrawSnakeWrites(board, snake)
                            \o DrawFoodWrites(board, food)
                            \o PauseMessageWrites(board, paused))
       IN  screen' = OnBoardOnly(IF gameOver
                                 THEN ShowGameOverScreenOn(drawn, board)
                                 ELSE drawn,
                                 board)
    /\ UNCHANGED <<snake, food, score, highScore, gameOver, gameRunning,
                   paused, gameSpeed, currentLevel, oldFoodPos, foodEaten,
                   moves, keys, games, op, pauseMark, console>>

DrawNext ==
    \/ Welcome
    \/ \E inp \in InputSeqs : ProcessInput(inp)
    \/ Update
    \/ DrawRender
    \/ Post
    \/ \E choice \in PromptKeys : Prompt(choice)

DrawSpec == Init /\ [][DrawNext]_vars

-----------------------------------------------------------------------------
(* Properties of the display, checked under DrawSpec.                      *)

\* the characters drawSnake writes for the snake
SnakeGlyphs == {"^", "v", "<", ">", "@", "o"}

\* the board area shows a snake character on exactly the cells of the body
\* and the food's symbol on the food's cell
BoardAreaRight ==
    /\ \A e \in screen : e[2] \in SnakeGlyphs => OnBody(e[1], snake.body)
    /\ \A i \in 1..Len(snake.body) :
           InBoard(snake.body[i]) =>
               Shown(screen, snake.body[i]) \in SnakeGlyphs
    /\ Shown(screen, food.position) = food.symbol

\* C34 as claimed: after every render call while the game is not over, the
\* frames on which the game is paused or resumed included, the board area
\* shows a snake character on exactly the cells of the body that are in
\* the board and the food's symbol on the food's cell.
C34_BoardAreaShown == pc = "post" /\ ~gameOver => BoardAreaRight

\* the same for the renders that neither write nor clear the pause message
BoardAreaRightUnlessPauseToggled ==
    [][pc = "render" /\ ~gameOver /\ paused = board.wasPaused =>
          BoardAreaRight']_vars

-----------------------------------------------------------------------------
(* The score and the high score over the games of a process, under Spec.   *)

\* C35: the score is always a non-negative multiple of 10; a step that
\* changes it is either a tick in which the head reached the food, which
\* adds 10 or 50, or the restart, which sets it to 0; so within a game it
\* never decreases.
C35_ScoreSteps ==
    /\ [](score >= 0 /\ score % 10 = 0)
    /\ [][/\ score' # score =>
                 \/ EatingTick /\ score' - score \in {CommonValue, BonusValue}
                 \/ RestartStep /\ score' = 0
          /\ ~RestartStep => score' >= score]_vars

\* a common and a bonus food have been eaten in the first game
C35_Witness ==
    /\ games = 0
    /\ pc = "render"
    /\ foodEaten
    /\ score = CommonValue + BonusValue
    /\ moves = 2

\* the game has ended and been rendered: the next step is handleGameOver,
\* which begins with saveHighScore
GameOverCommitted == pc = "post" /\ gameOver

\* C36: highScore is 0 before the first game and never decreases; the only
\* step that changes it is the one that follows the end of a game, which
\* makes it the maximum of itself and that game's final score; restart
\* leaves it alone.  So while the program waits at the prompt after the
\* first game it is that game's final score, and after any later game it is
\* the greatest final score so far.
C36_HighScoreIsMaximum ==
    /\ highScore = 0
    /\ [](games = 0 /\ pc = "prompt" => highScore = score)
    /\ [][/\ highScore' >= highScore
          /\ RestartStep => highScore' = highScore /\ score' = 0
          /\ GameOverCommitted => highScore' = Max(highScore, score)
          /\ ~GameOverCommitted => highScore' = highScore]_vars

\* the first game ended with no food eaten, the second with some: the
\* high score is the final score of the second
C36_Witness ==
    /\ pc = "prompt"
    /\ games = 1
    /\ gameOver
    /\ score > 0
    /\ highScore = score
    /\ moves = MaxMoves

=============================================================================
